---- MODULE Spec2Model ----
(***************************************************************************)
(* Model of pelican_bibtex.add_publications (src/pelican_bibtex.py).       *)
(*                                                                         *)
(* A Python str is a sequence of one-character strings.  None is the       *)
(* one-element sequence <<"None">>, which no str can equal because its     *)
(* element is not a single character.  A dict is a function whose DOMAIN   *)
(* is the set of keys present.                                             *)
(***************************************************************************)
EXTENDS Integers, Sequences, FiniteSets, TLC

VARIABLES
    settings,           \* generator.settings restricted to the three *_SRC keys
    pybtex,             \* TRUE iff `import pybtex...` succeeds (lines 52-57)
    fs,                 \* the filesystem objects os.access can see
    context,            \* generator.context
    context0,           \* generator.context as it was when the call began
    pc,                 \* position of the call
    s_idx,              \* index of the for-loop of line 62
    bibdata_all,        \* bibdata_all.entries of the current source
    formatted_entries,  \* keys of formatted_entries, in the style's order
    pos,                \* index of the for-loop of line 82
    publications,       \* the list built at lines 75/119
    log,                \* warnings given to logger.warn
    file_field,         \* an entry's `file` field           (SpecPdf)
    pdf,                \* the pdf value of lines 92-96       (SpecPdf)
    src,                \* the source an entry comes from     (SpecText)
    rendered,           \* formatted_entry.text.render(...)   (SpecText)
    stripped,           \* text after line 111                (SpecText)
    text                \* text after line 117                (SpecText)

vars == <<settings, pybtex, fs, context, context0, pc, s_idx, bibdata_all,
          formatted_entries, pos, publications, log, file_field, pdf, src,
          rendered, stripped, text>>

runVars == <<settings, pybtex, context, context0, s_idx, bibdata_all,
             formatted_entries, pos, publications, log>>
pdfVars == <<file_field, pdf>>
textVars == <<src, rendered, stripped, text>>

----------------------------------------------------------------------------
(* Bounds *)

\* total number of entries over the configured bibliography files
MaxEntries == 3
\* longest `file` field explored by SpecPdf
MaxFileLen == 3
\* longest rendered text over the brace alphabet explored by SpecText
MaxTextLen == 5
\* most fragments concatenated into a rendered text explored by SpecText
MaxFragments == 2

----------------------------------------------------------------------------
(* Python values *)

None == <<"None">>
EmptyStr == <<>>

\* dict.get(name, default)
Get(d, name, default) == IF name \in DOMAIN d THEN d[name] ELSE default

\* the dict left by dict.pop(name, None): every other key kept
PopKeeps(d, name) == d
Pop(d, name) == [n \in (DOMAIN d) \ {name} |-> d[n]]

\* str.replace(old, new): non-overlapping occurrences, left to right, one pass
RECURSIVE Replace(_, _, _)
Replace(s, old, new) ==
    IF Len(s) < Len(old) THEN s
    ELSE IF SubSeq(s, 1, Len(old)) = old
         THEN new \o Replace(SubSeq(s, Len(old) + 1, Len(s)), old, new)
         ELSE <<Head(s)>> \o Replace(Tail(s), old, new)

\* str.split(sep)[0]: the part before the first sep, the whole str without one
RECURSIVE SplitFirst(_, _)
SplitFirst(s, sep) ==
    IF s = <<>> THEN <<>>
    ELSE IF Head(s) = sep THEN <<>>
         ELSE <<Head(s)>> \o SplitFirst(Tail(s), sep)

\* os.path.join(a, b) of posixpath
PathJoin(a, b) ==
    IF b # <<>> /\ Head(b) = "/" THEN b
    ELSE IF a = <<>> \/ a[Len(a)] = "/" THEN a \o b
         ELSE a \o <<"/">> \o b

----------------------------------------------------------------------------
(* The filesystem seen by os.access *)

Content == <<"c", "o", "n", "t", "e", "n", "t">>
Download == <<"d", "o", "w", "n", "l", "o", "a", "d">>

\* the names a path walks through: its parts between '/', empty parts dropped
RECURSIVE Components(_)
Components(p) ==
    IF p = <<>> THEN <<>>
    ELSE LET seg == SplitFirst(p, "/")
             rest == SubSeq(p, Len(seg) + 2, Len(p))
         IN (IF seg = <<>> THEN <<>> ELSE <<seg>>) \o Components(rest)

\* os.access(path, os.R_OK): the object the path resolves to exists and is
\* readable; a path ending in '/' resolves only to a directory
Access(path, fsys) ==
    \E o \in fsys :
        /\ o.abs = (path # <<>> /\ Head(path) = "/")
        /\ o.comps = Components(path)
        /\ o.readable
        /\ (path # <<>> /\ path[Len(path)] = "/") => o.kind = "dir"

\* lines 92-96: the pdf link of an entry whose `file` field is file
ResolvePdf(file, fsys) ==
    LET filename == SplitFirst(file, ":")
    IN IF Access(PathJoin(PathJoin(Content, Download), filename), fsys)
       THEN PathJoin(Download, filename)
       ELSE None

----------------------------------------------------------------------------
(* Lines 106-117: prettifying the rendered citation *)

InEm == <<"I", "n", " ", "<", "e", "m", ">">>
PresentedAtEm == <<"P", "r", "e", "s", "e", "n", "t", "e", "d", " ",
                   "a", "t", " ", "<", "e", "m", ">">>
NO2 == <<"N", "O", "2">>
CO2 == <<"C", "O", "2">>
NO2Sub == <<"N", "O", "<", "s", "u", "b", ">", "2", "<", "/", "s", "u", "b", ">">>
CO2Sub == <<"C", "O", "<", "s", "u", "b", ">", "2", "<", "/", "s", "u", "b", ">">>

\* lines 108-111
StripBraces(t) ==
    Replace(Replace(Replace(Replace(t, <<"\\", "{">>, <<>>),
                            <<"{">>, <<>>),
                    <<"\\", "}">>, <<>>),
            <<"}">>, <<>>)

\* lines 113-115
Subscripts(t) ==
    Replace(Replace(Replace(t, NO2, NO2Sub), CO2, CO2Sub), CO2, CO2Sub)

\* line 117
Retitle(t) == Replace(t, InEm, PresentedAtEm)

Prettify(t) == Retitle(Subscripts(StripBraces(t)))

----------------------------------------------------------------------------
(* Lines 99-101: BibliographyData(entries={key: entry}) written by Writer, *)
(* as the stream of its tokens: the key, then each field's name and value  *)

FieldOrder == <<"title", "year", "doi", "url", "file", "slides", "poster">>

RECURSIVE WriteFields(_, _)
WriteFields(fields, names) ==
    IF names = <<>> THEN <<>>
    ELSE (IF Head(names) \in DOMAIN fields
          THEN << <<Head(names)>>, fields[Head(names)] >>
          ELSE <<>>) \o WriteFields(fields, Tail(names))

WriteBibtex(key, fields) == <<key>> \o WriteFields(fields, FieldOrder)

\* Parser().parse_stream of such a stream: the entry it holds
ParseBibtex(tokens) ==
    LET n == (Len(tokens) - 1) \div 2
    IN [key |-> tokens[1],
        fields |-> [name \in {tokens[2 * i][1] : i \in 1..n} |->
                       tokens[(CHOOSE i \in 1..n : tokens[2 * i][1] = name) * 2 + 1]]]

----------------------------------------------------------------------------
(* The inputs of a run *)

\* line 62: the configuration keys and, zipped with them, the context keys
SourceKeys == <<"PUBLICATIONS_SRC", "PRESENTATIONS_SRC", "POSTERS_SRC">>
OutputNamesShifted == <<"presentations", "posters", "publications">>
OutputNames == <<"publications", "presentations", "posters">>

NumSources == Len(SourceKeys)

\* citation keys of a bibliography file, in file order
KeyDigits == <<"1", "2", "3", "4", "5", "6", "7", "8", "9">>
Key(i) == <<"k", KeyDigits[i]>>

\* parsed entries: the field mapping, and the text the plain style and the
\* html backend render for the entry
EntryFull ==
    [fields |-> [title |-> <<"t">>, year |-> <<"1", "9">>, doi |-> <<"d">>,
                 url |-> <<"u">>, file |-> <<"a", ":", "a">>,
                 slides |-> <<"s">>, poster |-> <<"p">>],
     rendered |-> InEm \o <<"{", "t", "}">>]
EntryBare ==
    [fields |-> [title |-> <<"t">>, file |-> <<"b">>],
     rendered |-> CO2]
EntryNoFile ==
    [fields |-> [title |-> <<"t">>, poster |-> <<"p">>],
     rendered |-> <<"t">>]
Entries == {EntryFull, EntryBare, EntryNoFile}

\* the orders a style may give n entries: file order or its reverse
Orders(n) == {[i \in 1..n |-> Key(i)], [i \in 1..n |-> Key(n + 1 - i)]}

\* what Parser().parse_file makes of a path: a PybtexError, or n entries
NotConfigured == [parse |-> "absent", entries |-> <<>>, order |-> <<>>]
Unparsable == [parse |-> "error", entries |-> <<>>, order |-> <<>>]
Bibliographies(n) ==
    {[parse |-> "ok",
      entries |-> [k \in {Key(i) : i \in 1..n} |->
                      e[CHOOSE i \in 1..n : Key(i) = k]],
      order |-> o] : e \in [1..n -> Entries], o \in Orders(n)}

\* the filesystem objects
Root == [abs |-> TRUE, comps |-> <<>>, kind |-> "dir", readable |-> TRUE]
ContentDir == [abs |-> FALSE, comps |-> <<Content>>, kind |-> "dir",
               readable |-> TRUE]
DownloadDir == [abs |-> FALSE, comps |-> <<Content, Download>>, kind |-> "dir",
                readable |-> TRUE]
Downloadable(name, kind, readable) ==
    [abs |-> FALSE, comps |-> <<Content, Download, name>>, kind |-> kind,
     readable |-> readable]
RootFile(name) ==
    [abs |-> TRUE, comps |-> <<name>>, kind |-> "file", readable |-> TRUE]
Filesystems ==
    { {Root},
      {Root, ContentDir, DownloadDir},
      {Root, ContentDir, DownloadDir, Downloadable(<<"a">>, "file", TRUE)},
      {Root, ContentDir, DownloadDir, Downloadable(<<"a">>, "file", FALSE)},
      {Root, ContentDir, DownloadDir, Downloadable(<<"a">>, "dir", TRUE)},
      {Root, ContentDir, DownloadDir, RootFile(<<"a">>)} }

\* a record another plugin run left in the context
StaleRecord == <<<<"o", "l", "d">>, None, <<>>, <<>>, <<>>, <<>>, None, None, None>>
EmptyContext == [k \in {"articles"} |-> <<>>]
StaleContext ==
    [k \in {"articles", "publications", "presentations", "posters"} |->
        <<StaleRecord>>]

\* the environments a run starts in: is pybtex importable, what the context
\* holds, what the filesystem holds
Environments ==
    [pybtex : BOOLEAN,
     context : {EmptyContext, StaleContext},
     fs : { {Root},
            {Root, ContentDir, DownloadDir, Downloadable(<<"a">>, "file", TRUE)} }]

\* the dict of the configured sources
MakeSettings(b) ==
    [s \in {SourceKeys[i] : i \in {j \in 1..NumSources : b[j].parse # "absent"}} |->
        b[CHOOSE i \in 1..NumSources : SourceKeys[i] = s]]

Sizes == {n \in [1..NumSources -> -2..MaxEntries] :
            (IF n[1] > 0 THEN n[1] ELSE 0) + (IF n[2] > 0 THEN n[2] ELSE 0)
            + (IF n[3] > 0 THEN n[3] ELSE 0) <= MaxEntries}
Files(n) == IF n = -2 THEN {NotConfigured}
            ELSE IF n = -1 THEN {Unparsable}
            ELSE Bibliographies(n)

Idle == <<>>

Init ==
    /\ \E n \in Sizes :
         \E b1 \in Files(n[1]), b2 \in Files(n[2]), b3 \in Files(n[3]) :
            settings = MakeSettings(<<b1, b2, b3>>)
    /\ \E env \in Environments :
         /\ pybtex = env.pybtex
         /\ context = env.context
         /\ context0 = env.context
         /\ fs = env.fs
    /\ pc = "start"
    /\ s_idx = 1
    /\ bibdata_all = <<>>
    /\ formatted_entries = <<>>
    /\ pos = 1
    /\ publications = <<>>
    /\ log = <<>>
    /\ file_field = Idle /\ pdf = Idle
    /\ src = Idle /\ rendered = Idle /\ stripped = Idle /\ text = Idle

----------------------------------------------------------------------------
(* add_publications *)

\* lines 41-46: no recognized key in the settings: return
NoSettings ==
    /\ pc = "start"
    /\ \A i \in 1..NumSources : SourceKeys[i] \notin DOMAIN settings
    /\ pc' = "done"
    /\ UNCHANGED <<runVars, fs, pdfVars, textVars>>

\* lines 52-60: pybtex cannot be imported: warn and return
ImportFails ==
    /\ pc = "start"
    /\ \E i \in 1..NumSources : SourceKeys[i] \in DOMAIN settings
    /\ ~pybtex
    /\ log' = Append(log, <<"pybtex">>)
    /\ pc' = "done"
    /\ UNCHANGED <<settings, pybtex, context, context0, s_idx, bibdata_all,
                   formatted_entries, pos, publications, fs, pdfVars, textVars>>

\* lines 41-62: a key is present and pybtex is imported: enter the loop
Enter ==
    /\ pc = "start"
    /\ \E i \in 1..NumSources : SourceKeys[i] \in DOMAIN settings
    /\ pybtex
    /\ pc' = "sources"
    /\ s_idx' = 1
    /\ UNCHANGED <<settings, pybtex, context, context0, bibdata_all,
                   formatted_entries, pos, publications, log, fs, pdfVars,
                   textVars>>

\* lines 64-65: the key of this iteration is not in the settings: continue
SkipSource ==
    /\ pc = "sources"
    /\ s_idx <= NumSources
    /\ SourceKeys[s_idx] \notin DOMAIN settings
    /\ s_idx' = s_idx + 1
    /\ UNCHANGED <<settings, pybtex, context, context0, pc, bibdata_all,
                   formatted_entries, pos, publications, log, fs, pdfVars,
                   textVars>>

\* lines 66-73: parse_file raises PybtexError: warn and continue
ParseFailReturns ==
    /\ pc = "sources"
    /\ s_idx <= NumSources
    /\ SourceKeys[s_idx] \in DOMAIN settings
    /\ settings[SourceKeys[s_idx]].parse = "error"
    /\ log' = Append(log, <<"parse", SourceKeys[s_idx]>>)
    /\ pc' = "done"
    /\ UNCHANGED <<settings, pybtex, context, context0, s_idx, bibdata_all,
                   formatted_entries, pos, publications, fs, pdfVars, textVars>>
ParseFail ==
    /\ pc = "sources"
    /\ s_idx <= NumSources
    /\ SourceKeys[s_idx] \in DOMAIN settings
    /\ settings[SourceKeys[s_idx]].parse = "error"
    /\ log' = Append(log, <<"parse", SourceKeys[s_idx]>>)
    /\ s_idx' = s_idx + 1
    /\ UNCHANGED <<settings, pybtex, context, context0, pc, bibdata_all,
                   formatted_entries, pos, publications, fs, pdfVars, textVars>>

\* lines 66-82: parse_file succeeds: an empty list, the entries formatted
ParseOk ==
    /\ pc = "sources"
    /\ s_idx <= NumSources
    /\ SourceKeys[s_idx] \in DOMAIN settings
    /\ settings[SourceKeys[s_idx]].parse = "ok"
    /\ bibdata_all' = settings[SourceKeys[s_idx]].entries
    /\ formatted_entries' = settings[SourceKeys[s_idx]].order
    /\ publications' = <<>>
    /\ pos' = 1
    /\ pc' = "entries"
    /\ UNCHANGED <<settings, pybtex, context, context0, s_idx, log, fs,
                   pdfVars, textVars>>

\* lines 83-127: the tuple appended for an entry that has a `file` field
OutputRecord(key, entry, fsys) ==
    LET year == Get(entry.fields, "year", None)
        slides == Get(entry.fields, "slides", None)
        popped1 == Pop(entry.fields, "slides")
        poster == Get(popped1, "poster", None)
        popped2 == Pop(popped1, "poster")
    IN <<key,
         year,
         Prettify(entry.rendered),
         WriteBibtex(key, popped2),
         Get(popped2, "doi", EmptyStr),
         Get(popped2, "url", EmptyStr),
         ResolvePdf(popped2["file"], fsys),
         slides,
         poster>>

\* lines 82-130, one iteration: the entry's slides and poster are popped;
\* without a `file` field line 92 raises KeyError, which nothing catches;
\* with one the tuple is appended and the list stored in the context
ProcessEntrySkipsMissingFile ==
    /\ pc = "entries"
    /\ pos <= Len(formatted_entries)
    /\ LET key == formatted_entries[pos]
           entry == bibdata_all[key]
           popped == Pop(Pop(entry.fields, "slides"), "poster")
       IN /\ bibdata_all' = [bibdata_all EXCEPT ![key].fields = popped]
          /\ IF "file" \notin DOMAIN popped
             THEN /\ pos' = pos + 1
                  /\ UNCHANGED <<pc, publications, context>>
             ELSE /\ publications' =
                        Append(publications, OutputRecord(key, entry, fs))
                  /\ context' = (OutputNames[s_idx] :> publications') @@ context
                  /\ pos' = pos + 1
                  /\ pc' = pc
    /\ UNCHANGED <<settings, pybtex, context0, s_idx, formatted_entries, log,
                   fs, pdfVars, textVars>>
ProcessEntry ==
    /\ pc = "entries"
    /\ pos <= Len(formatted_entries)
    /\ LET key == formatted_entries[pos]
           entry == bibdata_all[key]
           popped == Pop(Pop(entry.fields, "slides"), "poster")
       IN /\ bibdata_all' = [bibdata_all EXCEPT ![key].fields = popped]
          /\ IF "file" \notin DOMAIN popped
             THEN /\ pc' = "raised"
                  /\ UNCHANGED <<pos, publications, context>>
             ELSE /\ publications' =
                        Append(publications, OutputRecord(key, entry, fs))
                  /\ context' = (OutputNames[s_idx] :> publications') @@ context
                  /\ pos' = pos + 1
                  /\ pc' = pc
    /\ UNCHANGED <<settings, pybtex, context0, s_idx, formatted_entries, log,
                   fs, pdfVars, textVars>>

\* line 82: formatted_entries is exhausted: the next source
EntriesDone ==
    /\ pc = "entries"
    /\ pos > Len(formatted_entries)
    /\ pc' = "sources"
    /\ s_idx' = s_idx + 1
    /\ UNCHANGED <<settings, pybtex, context, context0, bibdata_all,
                   formatted_entries, pos, publications, log, fs, pdfVars,
                   textVars>>

\* line 62: the zip is exhausted: add_publications returns
Return ==
    /\ pc = "sources"
    /\ s_idx > NumSources
    /\ pc' = "done"
    /\ UNCHANGED <<runVars, fs, pdfVars, textVars>>

Next ==
    \/ NoSettings
    \/ ImportFails
    \/ Enter
    \/ SkipSource
    \/ ParseFail
    \/ ParseOk
    \/ ProcessEntry
    \/ EntriesDone
    \/ Return

Spec == Init /\ [][Next]_vars

----------------------------------------------------------------------------
(* Lines 92-96 on their own: every `file` field, every filesystem *)

\* all strings over an alphabet, up to a length
Strings(alphabet, maxLen) == UNION {[1..n -> alphabet] : n \in 0..maxLen}

FileChars == {"a", ":", "/"}

InitPdf ==
    /\ file_field \in Strings(FileChars, MaxFileLen)
    /\ fs \in Filesystems
    /\ pdf = Idle
    /\ pc = "start"
    /\ settings = <<>> /\ pybtex = TRUE /\ context = <<>> /\ context0 = <<>>
    /\ s_idx = 1 /\ bibdata_all = <<>> /\ formatted_entries = <<>> /\ pos = 1
    /\ publications = <<>> /\ log = <<>>
    /\ src = Idle /\ rendered = Idle /\ stripped = Idle /\ text = Idle

\* lines 92-96
PdfLink ==
    /\ pc = "start"
    /\ pdf' = ResolvePdf(file_field, fs)
    /\ pc' = "done"
    /\ UNCHANGED <<runVars, fs, file_field, textVars>>

NextPdf == PdfLink

SpecPdf == InitPdf /\ [][NextPdf]_vars

----------------------------------------------------------------------------
(* Lines 102-117 on their own: every rendered text, every source *)

BraceChars == {"\\", "{", "}", "x"}
Fragments == {InEm, <<"X", "<", "/", "e", "m", ">">>, NO2, CO2, <<"{">>, <<"a">>}

RECURSIVE Concat(_)
Concat(ss) == IF ss = <<>> THEN <<>> ELSE Head(ss) \o Concat(Tail(ss))

RenderedTexts ==
    Strings(BraceChars, MaxTextLen)
    \cup {Concat(f) : f \in Strings(Fragments, MaxFragments)}

InitText ==
    /\ src \in {SourceKeys[i] : i \in 1..NumSources}
    /\ rendered \in RenderedTexts
    /\ stripped = Idle
    /\ text = Idle
    /\ pc = "start"
    /\ settings = <<>> /\ pybtex = TRUE /\ context = <<>> /\ context0 = <<>>
    /\ s_idx = 1 /\ bibdata_all = <<>> /\ formatted_entries = <<>> /\ pos = 1
    /\ publications = <<>> /\ log = <<>>
    /\ fs = {} /\ file_field = Idle /\ pdf = Idle

\* lines 106-117
PrettifyText ==
    /\ pc = "start"
    /\ stripped' = StripBraces(rendered)
    /\ text' = Prettify(rendered)
    /\ pc' = "done"
    /\ UNCHANGED <<runVars, fs, pdfVars, src, rendered>>

NextText == PrettifyText

SpecText == InitText /\ [][NextText]_vars

----------------------------------------------------------------------------
(* What the properties speak of *)

\* the association the specification fixes between configuration keys and
\* context keys
ClaimedOutput(i) ==
    CASE SourceKeys[i] = "PUBLICATIONS_SRC" -> "publications"
      [] SourceKeys[i] = "PRESENTATIONS_SRC" -> "presentations"
      [] SourceKeys[i] = "POSTERS_SRC" -> "posters"

Configured(i) == SourceKeys[i] \in DOMAIN settings
Parses(i) == Configured(i) /\ settings[SourceKeys[i]].parse = "ok"
FailsToParse(i) == Configured(i) /\ settings[SourceKeys[i]].parse = "error"
NumEntries(i) == Len(settings[SourceKeys[i]].order)
KeyAt(i, k) == settings[SourceKeys[i]].order[k]
FieldsAt(i, k) == settings[SourceKeys[i]].entries[KeyAt(i, k)].fields
HasFile(i, k) == "file" \in DOMAIN FieldsAt(i, k)
AllHaveFile(i) == \A k \in 1..NumEntries(i) : HasFile(i, k)

\* the output records of the first n entries of source i, in the style's order
RecordsOf(i, n) ==
    [k \in 1..n |->
        OutputRecord(KeyAt(i, k), settings[SourceKeys[i]].entries[KeyAt(i, k)], fs)]

\* the context key k holds what it held when the call began
Untouched(k) ==
    /\ k \in DOMAIN context <=> k \in DOMAIN context0
    /\ k \in DOMAIN context => context[k] = context0[k]

Terminated == pc \in {"done", "raised"}

\* C1: the call changes the context only at the output keys whose
\* configuration key is present; every other key, an unrelated one included,
\* holds its pre-call value, and with no recognized key the whole context is
\* unchanged.
C1_OnlyConfiguredOutputsChange ==
    /\ \A k \in DOMAIN context \cup DOMAIN context0 :
          (\A i \in 1..NumSources : ClaimedOutput(i) = k => ~Configured(i))
          => Untouched(k)
    /\ (\A i \in 1..NumSources : ~Configured(i)) => context = context0

C1_Witness ==
    /\ pc = "done"
    /\ context0 = StaleContext
    /\ Parses(1) /\ ~Configured(2) /\ ~Configured(3)
    /\ Len(context["publications"]) = 2
    /\ context["publications"] # context0["publications"]
    /\ context["posters"] = <<StaleRecord>>
    /\ context["articles"] = <<StaleRecord>>

\* C2: with only PUBLICATIONS_SRC configured, its file parsing and holding N
\* entries that all have a `file` field, context['publications'] is after the
\* call the list of exactly N 9-tuples, one per entry, and no 'presentations'
\* or 'posters' key is added.
C2_ExactlyNTuples ==
    (/\ pc = "done"
     /\ pybtex
     /\ Parses(1) /\ ~Configured(2) /\ ~Configured(3)
     /\ AllHaveFile(1))
    => /\ "publications" \in DOMAIN context
       /\ Len(context["publications"]) = NumEntries(1)
       /\ \A k \in 1..NumEntries(1) :
             /\ Len(context["publications"][k]) = 9
             /\ context["publications"][k] = RecordsOf(1, NumEntries(1))[k]
       /\ Untouched("presentations")
       /\ Untouched("posters")

\* the run of add_publications over a configuration whose files all parse,
\* from source i on: the context it leaves and whether it ends in a raise
FirstWithoutFile(cfg, i) ==
    LET b == cfg[SourceKeys[i]]
        missing == {k \in 1..Len(b.order) :
                       "file" \notin DOMAIN b.entries[b.order[k]].fields}
    IN IF missing = {} THEN Len(b.order) + 1
       ELSE CHOOSE k \in missing : \A m \in missing : k <= m

RECURSIVE RunFrom(_, _, _)
RunFrom(cfg, i, ctx) ==
    IF i > NumSources THEN [context |-> ctx, raised |-> FALSE]
    ELSE IF SourceKeys[i] \notin DOMAIN cfg THEN RunFrom(cfg, i + 1, ctx)
    ELSE LET b == cfg[SourceKeys[i]]
             stop == FirstWithoutFile(cfg, i)
             list == [k \in 1..(stop - 1) |->
                         OutputRecord(b.order[k], b.entries[b.order[k]], fs)]
             after == IF stop = 1 THEN ctx
                      ELSE (ClaimedOutput(i) :> list) @@ ctx
         IN IF stop <= Len(b.order)
            THEN [context |-> after, raised |-> TRUE]
            ELSE RunFrom(cfg, i + 1, after)

Run(cfg, ctx) ==
    IF DOMAIN cfg = {} \/ ~pybtex THEN [context |-> ctx, raised |-> FALSE]
    ELSE RunFrom(cfg, 1, ctx)

\* the settings without the sources whose file fails to parse
WithoutUnparsable ==
    [s \in {SourceKeys[i] : i \in {j \in 1..NumSources : Parses(j)}} |->
        settings[s]]

\* the loop of line 62 has gone past source i
Passed(i) ==
    \/ pc \in {"sources", "entries", "raised"} /\ i < s_idx
    \/ pc = "done" /\ pybtex /\ \E j \in 1..NumSources : Configured(j)

\* C3: a source whose file fails to parse is warned about, raises nothing and
\* leaves its output key as it was, and the run ends as the run without that
\* source configured ends; when it is the only source the context gains no key.
C3_ParseFailureIsSkipped ==
    /\ \A i \in 1..NumSources :
          FailsToParse(i) =>
             /\ Untouched(ClaimedOutput(i))
             /\ Passed(i) =>
                   Cardinality({n \in 1..Len(log) :
                                   log[n] = <<"parse", SourceKeys[i]>>}) = 1
             /\ ~(pc = "raised" /\ s_idx = i)
    /\ Terminated =>
          /\ context = Run(WithoutUnparsable, context0).context
          /\ (pc = "raised") = Run(WithoutUnparsable, context0).raised
    /\ (Terminated /\ \A i \in 1..NumSources : ~Parses(i)) =>
          DOMAIN context = DOMAIN context0

C3_Witness ==
    /\ pc = "done"
    /\ context0 = EmptyContext
    /\ FailsToParse(1) /\ ~Configured(2) /\ Parses(3)
    /\ "publications" \notin DOMAIN context
    /\ "posters" \in DOMAIN context
    /\ Len(context["posters"]) = 2
    /\ log = << <<"parse", "PUBLICATIONS_SRC">> >>

\* a source fails: its file does not parse, or one of its entries cannot be
\* processed
FailsLocally(i) ==
    Configured(i) /\ (FailsToParse(i) \/ ~AllHaveFile(i))

\* C4: a failure local to one source never keeps another configured source
\* that parses from having its complete list stored under its output key when
\* the run ends.  (Stated for the other sources that hold at least one entry
\* and whose entries can all be processed.)
C4_FailureIsIsolated ==
    (Terminated /\ pybtex) =>
       \A i \in 1..NumSources :
          (/\ Parses(i) /\ NumEntries(i) >= 1 /\ AllHaveFile(i)
           /\ \E j \in 1..NumSources : j # i /\ FailsLocally(j))
          => /\ ClaimedOutput(i) \in DOMAIN context
             /\ context[ClaimedOutput(i)] = RecordsOf(i, NumEntries(i))

\* the context left by storing each source's list once, after its loop
RECURSIVE WriteOnceFrom(_, _)
WriteOnceFrom(i, ctx) ==
    IF i > NumSources THEN ctx
    ELSE IF Parses(i)
         THEN WriteOnceFrom(i + 1,
                  (ClaimedOutput(i) :> RecordsOf(i, NumEntries(i))) @@ ctx)
         ELSE WriteOnceFrom(i + 1, ctx)

\* C7: storing the list after each appended entry leaves the context that
\* storing it once after the loop leaves: when the run ends, every configured
\* source that parses has its complete list, in the style's order, under its
\* output key.
C7_SameAsWriteOnce ==
    (pc = "done" /\ pybtex /\ \E i \in 1..NumSources : Configured(i)) =>
       /\ context = WriteOnceFrom(1, context0)
       /\ \A i \in 1..NumSources :
             Parses(i) =>
                /\ ClaimedOutput(i) \in DOMAIN context
                /\ context[ClaimedOutput(i)] = RecordsOf(i, NumEntries(i))

\* the lists this run has stored
Stored ==
    {i \in 1..NumSources :
        /\ Parses(i)
        /\ ClaimedOutput(i) \in DOMAIN context
        /\ ~Untouched(ClaimedOutput(i))}

WithoutArtifacts(fields) ==
    [n \in (DOMAIN fields) \ {"slides", "poster"} |-> fields[n]]

\* C6: the bibtex_text of every output record is the serialization of the one
\* entry with the record's key and the raw fields less `slides` and `poster`,
\* parsing it back yields that entry, and the record's slides and poster are
\* the removed values, None for a missing field.
C6_BibtexOfTheEntryWithoutArtifacts ==
    \A i \in Stored :
       \A k \in 1..Len(context[ClaimedOutput(i)]) :
          LET rec == context[ClaimedOutput(i)][k]
              raw == FieldsAt(i, k)
          IN /\ rec[1] = KeyAt(i, k)
             /\ rec[4] = WriteBibtex(KeyAt(i, k), WithoutArtifacts(raw))
             /\ ParseBibtex(rec[4]) =
                   [key |-> rec[1], fields |-> WithoutArtifacts(raw)]
             /\ "slides" \notin DOMAIN ParseBibtex(rec[4]).fields
             /\ "poster" \notin DOMAIN ParseBibtex(rec[4]).fields
             /\ rec[8] = Get(raw, "slides", None)
             /\ rec[9] = Get(raw, "poster", None)

C6_Witness ==
    /\ pc = "done"
    /\ 3 \in Stored
    /\ Len(context["posters"]) = 2
    /\ context["posters"][1][8] = <<"s">>
    /\ context["posters"][1][9] = <<"p">>
    /\ context["posters"][2][8] = None
    /\ "file" \in DOMAIN ParseBibtex(context["posters"][1][4]).fields

ReadableDownload(name) ==
    name # <<>> /\ Downloadable(name, "file", TRUE) \in fs

\* C5: the pdf of an entry is 'download/<filename>', <filename> being the part
\* of its `file` field before the first ':', exactly when a readable file of
\* that exact name lies under content/download/; for every other `file` value
\* and filesystem (an empty first segment included) it is None.
C5_PdfIffReadableDownload ==
    pc = "done" =>
       LET filename == SplitFirst(file_field, ":")
       IN pdf = IF ReadableDownload(filename)
                THEN Download \o <<"/">> \o filename
                ELSE None

\* the order the specification fixes: the backslash-brace pairs first, then
\* the bare braces
StripEscapedThenBare(t) ==
    Replace(Replace(Replace(Replace(t, <<"\\", "{">>, <<>>),
                            <<"\\", "}">>, <<>>),
                    <<"{">>, <<>>),
            <<"}">>, <<>>)

\* C8: for every rendered text the brace stripping yields what removing every
\* backslash-brace pair first and every remaining bare brace afterwards yields.
C8_EscapedBracesFirst ==
    pc = "done" => stripped = StripEscapedThenBare(rendered)

\* sub occurs in s
Contains(s, sub) ==
    \E i \in 1..(Len(s) - Len(sub) + 1) : SubSeq(s, i, i + Len(sub) - 1) = sub

VenueX == <<"X", "<", "/", "e", "m", ">">>

\* C9: 'In <em>' becomes 'Presented at <em>' for the entries of the
\* presentations and posters sources, whose text then holds no 'In <em>'; for
\* the entries of the publications source 'In <em>X</em>' is left as it is.
C9_RetitledOnlyOutsidePublications ==
    (pc = "done" /\ Contains(rendered, InEm \o VenueX)) =>
       IF src = "PUBLICATIONS_SRC"
       THEN Contains(text, InEm \o VenueX)
       ELSE /\ Contains(text, PresentedAtEm \o VenueX)
            /\ ~Contains(text, InEm)

====
